---- MODULE Spec2Model ----
(***************************************************************************)
(* LogAnywhere: the handler registry (HandlerManager), the per-Tag         *)
(* subscriber lists and the dispatcher (Logger::log).                      *)
(*                                                                         *)
(* A Tag's subscriber list holds HandlerEntry* pointers into the           *)
(* HandlerManager's handlers[] array.  A pointer is modelled as the index  *)
(* of the slot it points to; what a pointer designates is whatever record  *)
(* the slot holds when the pointer is dereferenced.                        *)
(***************************************************************************)
EXTENDS Integers, Sequences, FiniteSets, TLC

\* ------------------------------------------------------------------------
\* Configuration macros of the library, set small here (both are #ifndef
\* defaults that a build overrides), and the bounds of the test harness.
MAX_HANDLERS == 3
MAX_TAG_SUBSCRIPTIONS == 2
MaxRegs == 3

\* uint16_t nextHandlerId / HandlerEntry::id
IdModulus == 65536

\* enum class LogLevel : uint8_t
TRACE == 0
DEBUG == 1
INFO == 2
WARN == 3
ERROR == 4
Levels == {TRACE, DEBUG, INFO, WARN, ERROR}

\* nullptr for a name or a callback, and for a context pointer
NULLPTR == "nullptr"
NullCtx == 0

Slots == 0 .. (MAX_HANDLERS - 1)
Tags == {"T1", "T2"}

\* HandlerEntry::HandlerEntry() -- the value-initialised slot
DefaultEntry ==
    [id |-> 0, name |-> NULLPTR, level |-> TRACE, handler |-> NULLPTR,
     context |-> NullCtx, tagList |-> << >>, tagCount |-> 0, enabled |-> TRUE]

\* HandlerEntry::HandlerEntry(id_, name_, level_, fn, ctx, tags, count, enabled_):
\* copies the first min(count, MAX_TAG_SUBSCRIPTIONS) tags.
HandlerEntryCtor(id_, name_, level_, fn, ctx, tags, count, enabled_) ==
    LET toCopy == IF count > MAX_TAG_SUBSCRIPTIONS THEN MAX_TAG_SUBSCRIPTIONS ELSE count
    IN  [id |-> id_, name |-> name_, level |-> level_, handler |-> fn,
         context |-> ctx, tagList |-> SubSeq(tags, 1, toCopy), tagCount |-> toCopy,
         enabled |-> enabled_]

VARIABLES
    handlers,           \* HandlerManager::handlers[MAX_HANDLERS] (every slot, active or not)
    handlerCount,       \* HandlerManager::handlerCount
    nextHandlerId,      \* HandlerManager::nextHandlerId (uint16_t)
    tags,               \* Tag::handlers[0 .. handlerCount-1] of each Tag: a sequence of
                        \* [slot, owner]; slot is the pointer, owner is history: the
                        \* context of the record that made the subscription
    logManager,         \* Logger::handlerManager is non-null
    timestampProvider,  \* Logger::timestampProvider (NULLPTR or a provider)
    logSequence,        \* Logger::logSequence
    calls,              \* the callbacks invoked by the last Logger::log, in order
    providerCalled,     \* the last call was a Logger::log that called timestampProvider
    lastOp,             \* the last API call and what it returned (TRUE for a void call)
    regs,               \* harness: number of successful registrations so far; the
                        \* harness gives registration number n the context pointer n
    subscribed,         \* history: <<context, tag>> for every subscription a register made
    removed,            \* history: contexts of the records a delete call removed
    lastId,             \* history: id given by the last successful register since the
                        \* last clear, 0 when there was none
    seqUsed,            \* history: number of log calls so far that had neither an
                        \* explicit timestamp nor a provider to take one from
    inflight,           \* the registerHandlerForTags or deleteHandlerByID call that has
                        \* started and not returned: where it stands and its locals
    walk,               \* the Logger::log call whose subscriber loop is running: its
                        \* arguments and loop index
    otherManager        \* a second HandlerManager object: its handlers, handlerCount
                        \* and nextHandlerId

vars == <<handlers, handlerCount, nextHandlerId, tags, logManager, timestampProvider,
          logSequence, calls, providerCalled, lastOp, regs, subscribed, removed, lastId,
          seqUsed, inflight, walk, otherManager>>

registry == <<handlers, handlerCount, nextHandlerId>>
history == <<regs, subscribed, removed, lastId>>
\* the Logger's members together with the history of its counter
loggerState == <<logManager, timestampProvider, logSequence, seqUsed>>
\* the calls in progress
stepState == <<inflight, walk>>
\* what a whole call on the first HandlerManager or on the Logger leaves alone
aside == <<inflight, walk, otherManager>>

\* no registry call in progress.  kind is the step the call stands before
\* ("register": createEntry done, subscribeEntryToTags to come; "unsubscribe" and
\* "compact": the steps of a delete), entry the HandlerEntry pointer it holds,
\* ctx the context of the record entry designated when the call took it, and
\* removed0 the history of removals at that time.
NoInflight == [kind |-> "none", entry |-> -1, tagList |-> << >>, tagCount |-> 0,
               ctx |-> NullCtx, removed0 |-> {}]
\* no log call in progress.  i is the loop index (from 1), eligible the contexts
\* of the handlers eligible when the call started, removers the contexts of the
\* callbacks that removed their own record during the call.
\* HandlerManager(): the members of a HandlerManager just constructed
NewManager == [handlers |-> [j \in Slots |-> DefaultEntry], handlerCount |-> 0,
               nextHandlerId |-> 1]
NoWalk == [active |-> FALSE, level |-> TRACE, tag |-> "T1", ts |-> 0, i |-> 0,
           eligible |-> {}, removers |-> {}]

\* ------------------------------------------------------------------------
\* HandlerManager helpers, as functions of the state they read.

\* hasCapacity with the comparison off by one (<= for <)
HasCapacityOffByOne(count) == count <= MAX_HANDLERS

\* HandlerManager::hasCapacity
HasCapacity(count) == count < MAX_HANDLERS

\* HandlerManager::createEntry: handlers[handlerCount] = HandlerEntry(nextHandlerId++, ...);
\* handlerCount++
CreateEntry(h, count, nid, level, fn, ctx, tagList, tagCount, name) ==
    [handlers |-> [h EXCEPT ![count] =
                      HandlerEntryCtor(nid, name, level, fn, ctx, tagList, tagCount, TRUE)],
     handlerCount |-> count + 1,
     nextHandlerId |-> (nid + 1) % IdModulus]

\* subscribeEntryToTags without the test for room in the Tag
RECURSIVE SubscribeEntryToTagsNoRoomTest(_, _, _, _, _, _)
SubscribeEntryToTagsNoRoomTest(tg, slot, owner, tagList, tagCount, i) ==
    IF i > tagCount THEN tg
    ELSE SubscribeEntryToTagsNoRoomTest(
             [tg EXCEPT ![tagList[i]] = Append(@, [slot |-> slot, owner |-> owner])],
             slot, owner, tagList, tagCount, i + 1)

\* subscribeEntryToTags leaving the loop at the first Tag that is full
RECURSIVE SubscribeEntryToTagsStopsAtFull(_, _, _, _, _, _)
SubscribeEntryToTagsStopsAtFull(tg, slot, owner, tagList, tagCount, i) ==
    IF i > tagCount THEN tg
    ELSE LET t == tagList[i]
         IN  IF Len(tg[t]) < MAX_TAG_SUBSCRIPTIONS
             THEN SubscribeEntryToTagsStopsAtFull(
                      [tg EXCEPT ![t] = Append(@, [slot |-> slot, owner |-> owner])],
                      slot, owner, tagList, tagCount, i + 1)
             ELSE tg

\* HandlerManager::subscribeEntryToTags: for (i = 0; i < tagCount; ++i) append the
\* entry pointer to tagList[i] when that Tag has room.  i counts from 1 here.
RECURSIVE SubscribeEntryToTags(_, _, _, _, _, _)
SubscribeEntryToTags(tg, slot, owner, tagList, tagCount, i) ==
    IF i > tagCount THEN tg
    ELSE LET t == tagList[i]
             tg2 == IF Len(tg[t]) < MAX_TAG_SUBSCRIPTIONS
                    THEN [tg EXCEPT ![t] = Append(@, [slot |-> slot, owner |-> owner])]
                    ELSE tg
         IN  SubscribeEntryToTags(tg2, slot, owner, tagList, tagCount, i + 1)

\* findEntryByID scanning the whole array instead of the active slots
FindEntryByIDAllSlots(h, count, id) ==
    LET hits == {i \in Slots : h[i].id = id}
    IN  IF hits = {} THEN -1 ELSE CHOOSE i \in hits : \A j \in hits : i <= j

\* HandlerManager::findEntryByID: index of the first active slot with that id, -1 for nullptr
FindEntryByID(h, count, id) ==
    LET hits == {i \in Slots : i < count /\ h[i].id = id}
    IN  IF hits = {} THEN -1 ELSE CHOOSE i \in hits : \A j \in hits : i <= j

\* findEntryByName with the null check on the record's name inverted
FindEntryByNameNullMatches(h, count, name) ==
    LET hits == {i \in Slots : i < count /\ (h[i].name = NULLPTR \/ h[i].name = name)}
    IN  IF hits = {} THEN -1 ELSE CHOOSE i \in hits : \A j \in hits : i <= j

\* HandlerManager::findEntryByName: first active slot with a non-null name equal to name
FindEntryByName(h, count, name) ==
    LET hits == {i \in Slots : i < count /\ h[i].name # NULLPTR /\ h[i].name = name}
    IN  IF hits = {} THEN -1 ELSE CHOOSE i \in hits : \A j \in hits : i <= j

\* The inner loop of unsubscribeEntryFromTags / clearHandlers: keep, in order, the
\* pointers of one Tag that differ from entry.
PruneTag(list, slot) == SelectSeq(list, LAMBDA r : r.slot # slot)

\* HandlerManager::unsubscribeEntryFromTags(entry): for each t < entry->tagCount,
\* compact entry->tagList[t]'s subscriber array without the pointer entry.
RECURSIVE UnsubscribeEntryFromTags(_, _, _, _)
UnsubscribeEntryFromTags(tg, h, slot, t) ==
    IF t > h[slot].tagCount THEN tg
    ELSE LET tag == h[slot].tagList[t]
         IN  UnsubscribeEntryFromTags([tg EXCEPT ![tag] = PruneTag(@, slot)], h, slot, t + 1)

\* compactHandlerArray that moves no record and keeps the count
CompactHandlerArrayKeepsAll(h, count, index) ==
    [handlers |-> h, handlerCount |-> count]

\* compactHandlerArray filling the hole with the last active record instead of
\* shifting the later ones down
CompactHandlerArraySwapLast(h, count, index) ==
    [handlers |-> [j \in Slots |-> IF j = index /\ count >= 1 THEN h[count - 1] ELSE h[j]],
     handlerCount |-> count - 1]

\* HandlerManager::compactHandlerArray(index): for (i = index+1; i < handlerCount; ++i)
\* handlers[i-1] = handlers[i]; --handlerCount.  The last active slot keeps its record.
CompactHandlerArray(h, count, index) ==
    [handlers |-> [j \in Slots |-> IF j >= index /\ j + 1 < count THEN h[j + 1] ELSE h[j]],
     handlerCount |-> count - 1]

\* HandlerManager::clearHandlers, first loop: unsubscribe every active slot i >= from
RECURSIVE ClearUnsubscribeAll(_, _, _, _)
ClearUnsubscribeAll(tg, h, count, i) ==
    IF i >= count THEN tg
    ELSE ClearUnsubscribeAll(UnsubscribeEntryFromTags(tg, h, i, 1), h, count, i + 1)

\* HandlerManager::listHandlers: outCount and the array
ListHandlers(h, count) == [outCount |-> count, entries |-> h]

\* clearHandlers without the reset of nextHandlerId
ClearedRegistryKeepsNextId(h, count, nid) ==
    [handlers |-> [j \in Slots |-> DefaultEntry], handlerCount |-> 0, nextHandlerId |-> nid]

\* HandlerManager::clearHandlers: the registry after the call
ClearedRegistry(h, count, nid) ==
    [handlers |-> [j \in Slots |-> DefaultEntry], handlerCount |-> 0, nextHandlerId |-> 1]

\* ------------------------------------------------------------------------
\* Logger::log

\* if (!handlerManager) return;  with the test dropped
IsUnboundNever(manager) == FALSE

\* if (!handlerManager) return;
IsUnbound(manager) == ~manager

\* choose timestamp with logSequence++ done also when the provider is called
ResolveTimestampCountsProviderCalls(timestamp, provider, seq, providerValue) ==
    IF timestamp # 0 THEN [ts |-> timestamp, seq |-> seq, called |-> FALSE]
    ELSE IF provider # NULLPTR THEN [ts |-> providerValue, seq |-> seq + 1, called |-> TRUE]
    ELSE [ts |-> seq, seq |-> seq + 1, called |-> FALSE]

\* choose timestamp with the provider asked before the explicit argument is looked at
ResolveTimestampProviderFirst(timestamp, provider, seq, providerValue) ==
    IF provider # NULLPTR THEN [ts |-> providerValue, seq |-> seq, called |-> TRUE]
    ELSE IF timestamp # 0 THEN [ts |-> timestamp, seq |-> seq, called |-> FALSE]
    ELSE [ts |-> seq, seq |-> seq + 1, called |-> FALSE]

\* choose timestamp with logSequence++ done on every call
ResolveTimestampAlwaysAdvances(timestamp, provider, seq, providerValue) ==
    IF timestamp # 0 THEN [ts |-> timestamp, seq |-> seq + 1, called |-> FALSE]
    ELSE IF provider # NULLPTR THEN [ts |-> providerValue, seq |-> seq + 1, called |-> TRUE]
    ELSE [ts |-> seq, seq |-> seq + 1, called |-> FALSE]

\* choose timestamp: explicit nonzero, else provider(), else logSequence++
\* ts is the timestamp chosen, seq the counter afterwards, called whether the
\* provider was called (providerValue is what it returns when it is).
ResolveTimestamp(timestamp, provider, seq, providerValue) ==
    IF timestamp # 0 THEN [ts |-> timestamp, seq |-> seq, called |-> FALSE]
    ELSE IF provider # NULLPTR THEN [ts |-> providerValue, seq |-> seq, called |-> TRUE]
    ELSE [ts |-> seq, seq |-> seq + 1, called |-> FALSE]

\* the subscriber walk with the timestamp taken anew for every callback: the
\* i-th entry's message carries the timestamp advanced by i - 1
RECURSIVE WalkStampsEachCall(_, _, _, _, _, _)
WalkStampsEachCall(list, h, level, msg, ub, i) ==
    IF i > Len(list) THEN << >>
    ELSE LET e == h[list[i].slot]
         IN  IF ~e.enabled THEN WalkStampsEachCall(list, h, level, msg, ub, i + 1)
             ELSE IF level < e.level THEN WalkStampsEachCall(list, h, level, msg, ub, i + 1)
             ELSE LET call == [handler |-> e.handler, context |-> e.context,
                               msg |-> [msg EXCEPT !.timestamp = @ + i - 1]]
                  IN  IF e.handler = NULLPTR /\ ub = "abort" THEN <<call>>
                      ELSE <<call>> \o WalkStampsEachCall(list, h, level, msg, ub, i + 1)

\* The subscriber walk: for (i = 0; i < tag->handlerCount; ++i) { e = tag->handlers[i]; ... }.
\* Calling a null e->handler is undefined behaviour: the call is recorded, and the
\* walk then either stops there (the process dies) or goes on (ub = "continue").
RECURSIVE Walk(_, _, _, _, _, _)
Walk(list, h, level, msg, ub, i) ==
    IF i > Len(list) THEN << >>
    ELSE LET e == h[list[i].slot]
         IN  IF ~e.enabled THEN Walk(list, h, level, msg, ub, i + 1)
             ELSE IF level < e.level THEN Walk(list, h, level, msg, ub, i + 1)
             ELSE LET call == [handler |-> e.handler, context |-> e.context, msg |-> msg]
                  IN  IF e.handler = NULLPTR /\ ub = "abort" THEN <<call>>
                      ELSE <<call>> \o Walk(list, h, level, msg, ub, i + 1)

\* ------------------------------------------------------------------------
\* Initial state: HandlerManager(), Logger(&handlerManager), Tags with no subscribers.

Init ==
    /\ handlers = [j \in Slots |-> DefaultEntry]
    /\ handlerCount = 0
    /\ nextHandlerId = 1
    /\ tags = [t \in Tags |-> << >>]
    /\ logManager = TRUE
    /\ timestampProvider = NULLPTR
    /\ logSequence = 1
    /\ calls = << >>
    /\ providerCalled = FALSE
    /\ lastOp = [op |-> "init", ret |-> TRUE]
    /\ regs = 0
    /\ subscribed = {}
    /\ removed = {}
    /\ lastId = 0
    /\ seqUsed = 0
    /\ inflight = NoInflight
    /\ walk = NoWalk
    /\ otherManager = NewManager

\* ------------------------------------------------------------------------
\* The API calls.

\* HandlerManager::registerHandlerForTags
RegisterHandlerForTags(level, fn, ctx, tagList, tagCount, name) ==
    IF ~HasCapacity(handlerCount)
    THEN /\ lastOp' = [op |-> "register", ret |-> FALSE]
         /\ UNCHANGED aside
         /\ calls' = << >> /\ providerCalled' = FALSE
         /\ UNCHANGED <<registry, tags, loggerState, history>>
    ELSE LET r == CreateEntry(handlers, handlerCount, nextHandlerId,
                              level, fn, ctx, tagList, tagCount, name)
             tg == SubscribeEntryToTags(tags, handlerCount, ctx, tagList, tagCount, 1)
         IN  /\ handlers' = r.handlers
             /\ handlerCount' = r.handlerCount
             /\ nextHandlerId' = r.nextHandlerId
             /\ tags' = tg
             /\ lastOp' = [op |-> "register", ret |-> TRUE]
             /\ UNCHANGED aside
             /\ calls' = << >> /\ providerCalled' = FALSE
             /\ regs' = regs + 1
             /\ subscribed' = subscribed \cup
                    {<<ctx, t>> : t \in {u \in Tags : Len(tg[u]) > Len(tags[u])}}
             /\ lastId' = nextHandlerId
             /\ UNCHANGED <<loggerState, removed>>

\* The body shared by deleteHandlerByID and deleteHandlerByName once the entry is
\* looked up: e is its slot, or -1 for nullptr.
DeleteFound(e, opName) ==
    IF e = -1
    THEN /\ lastOp' = [op |-> opName, ret |-> FALSE]
         /\ UNCHANGED aside
         /\ calls' = << >> /\ providerCalled' = FALSE
         /\ UNCHANGED <<registry, tags, loggerState, history>>
    ELSE LET r == CompactHandlerArray(handlers, handlerCount, e)
         IN  /\ tags' = UnsubscribeEntryFromTags(tags, handlers, e, 1)
             /\ handlers' = r.handlers
             /\ handlerCount' = r.handlerCount
             /\ lastOp' = [op |-> opName, ret |-> TRUE]
             /\ UNCHANGED aside
             /\ calls' = << >> /\ providerCalled' = FALSE
             /\ removed' = removed \cup {handlers[e].context}
             /\ UNCHANGED <<nextHandlerId, loggerState, regs, subscribed, lastId>>

\* HandlerManager::deleteHandlerByID
DeleteHandlerByID(id) ==
    DeleteFound(FindEntryByID(handlers, handlerCount, id), "deleteByID")

\* HandlerManager::deleteHandlerByName
DeleteHandlerByName(name) ==
    DeleteFound(FindEntryByName(handlers, handlerCount, name), "deleteByName")

\* HandlerManager::clearHandlers
ClearHandlers ==
    LET r == ClearedRegistry(handlers, handlerCount, nextHandlerId)
    IN  /\ tags' = ClearUnsubscribeAll(tags, handlers, handlerCount, 0)
        /\ handlers' = r.handlers
        /\ handlerCount' = r.handlerCount
        /\ nextHandlerId' = r.nextHandlerId
        /\ lastOp' = [op |-> "clear", ret |-> TRUE]
        /\ UNCHANGED aside
        /\ calls' = << >> /\ providerCalled' = FALSE
        /\ lastId' = 0
        /\ UNCHANGED <<loggerState, regs, subscribed, removed>>

\* HandlerEntry::setEnabled on an entry of listHandlers() (slot i < handlerCount)
SetEnabled(i, on) ==
    /\ i < handlerCount
    /\ handlers' = [handlers EXCEPT ![i].enabled = on]
    /\ lastOp' = [op |-> "setEnabled", ret |-> TRUE]
    /\ UNCHANGED aside
    /\ calls' = << >> /\ providerCalled' = FALSE
    /\ UNCHANGED <<handlerCount, nextHandlerId, tags, loggerState, history>>

\* Logger::log(level, tag, message, timestamp)
Log(level, tag, message, timestamp, providerValue, ub) ==
    IF IsUnbound(logManager)
    THEN /\ lastOp' = [op |-> "log", ret |-> TRUE]
         /\ UNCHANGED aside
         /\ calls' = << >> /\ providerCalled' = FALSE
         /\ UNCHANGED <<registry, tags, loggerState, history>>
    ELSE LET r == ResolveTimestamp(timestamp, timestampProvider, logSequence, providerValue)
             msg == [level |-> level, tag |-> tag, message |-> message, timestamp |-> r.ts]
         IN  /\ logSequence' = r.seq
             /\ providerCalled' = r.called
             /\ seqUsed' = IF timestamp = 0 /\ timestampProvider = NULLPTR
                            THEN seqUsed + 1 ELSE seqUsed
             /\ calls' = Walk(tags[tag], handlers, level, msg, ub, 1)
             /\ lastOp' = [op |-> "log", ret |-> TRUE]
             /\ UNCHANGED aside
             /\ UNCHANGED <<registry, tags, logManager, timestampProvider, history>>

\* Logger::setTimestampProvider(fn)
SetTimestampProvider(fn) ==
    /\ timestampProvider' = fn
    /\ lastOp' = [op |-> "setTimestampProvider", ret |-> TRUE]
    /\ UNCHANGED aside
    /\ calls' = << >> /\ providerCalled' = FALSE
    /\ UNCHANGED <<registry, tags, logManager, logSequence, seqUsed, history>>

\* ------------------------------------------------------------------------
\* The harness: the arguments the calls are made with.

\* (threshold, name) pairs passed to register
RegArgs == {<<INFO, NULLPTR>>, <<WARN, "X">>}
DelNames == {"X", "Y"}
LogLevels == {DEBUG, INFO, WARN}
Callback == "countingHandler"
Message == "m"
\* the nonzero timestamp the harness passes to log
ExplicitTimestamps == {1000}
UbOutcomes == {"abort", "continue"}
\* tag lists passed to register: one tag, two distinct tags, and a list with a
\* repeated tag that is longer than the per-handler capacity
LongTagList == [i \in 1 .. (MAX_TAG_SUBSCRIPTIONS + 1) |->
                    IF i <= MAX_TAG_SUBSCRIPTIONS THEN "T1" ELSE "T2"]
TagLists == {<<"T1">>, <<"T2">>, <<"T1", "T2">>, LongTagList}

\* the ids the harness passes to deleteHandlerByID: those it was given, one
\* before and one after
DeleteIds(base) == {(base + k) % IdModulus : k \in 0 .. (MaxRegs + 1)}

\* The calls of a harness that starts after `base` registrations: at most MaxRegs
\* more successful registrations, deletes of the ids around those it was given.
NextFrom(base) ==
    \/ \E a \in RegArgs, tl \in TagLists :
          /\ regs < base + MaxRegs \/ handlerCount = MAX_HANDLERS
          /\ RegisterHandlerForTags(a[1], Callback, regs + 1, tl, Len(tl), a[2])
    \/ \E id \in DeleteIds(base) : DeleteHandlerByID(id)
    \/ \E name \in DelNames : DeleteHandlerByName(name)
    \/ ClearHandlers
    \/ \E i \in Slots, on \in BOOLEAN : SetEnabled(i, on)
    \/ \E level \in LogLevels, tag \in Tags, ts \in ExplicitTimestamps, ub \in UbOutcomes :
          Log(level, tag, Message, ts, 0, ub)

Next == NextFrom(0)

Spec == Init /\ [][Next]_vars

\* ------------------------------------------------------------------------
\* The same harness started where the id counter is about to wrap: the state
\* after WrapStart rounds of registerHandlerForTags(INFO, cb, nullptr, no tags)
\* followed by deleteHandlerByID of the id just given.
WrapStart == IdModulus - 3

InitWrap ==
    /\ handlers = [j \in Slots |->
                      IF j = 0
                      THEN HandlerEntryCtor(WrapStart, NULLPTR, INFO, Callback, NullCtx,
                                            << >>, 0, TRUE)
                      ELSE DefaultEntry]
    /\ handlerCount = 0
    /\ nextHandlerId = WrapStart + 1
    /\ tags = [t \in Tags |-> << >>]
    /\ logManager = TRUE
    /\ timestampProvider = NULLPTR
    /\ logSequence = 1
    /\ calls = << >>
    /\ lastOp = [op |-> "deleteByID", ret |-> TRUE]
    /\ regs = WrapStart
    /\ subscribed = {}
    /\ removed = {NullCtx}
    /\ lastId = WrapStart
    /\ providerCalled = FALSE
    /\ seqUsed = 0
    /\ inflight = NoInflight
    /\ walk = NoWalk
    /\ otherManager = NewManager

NextWrap == NextFrom(WrapStart)

SpecWrap == InitWrap /\ [][NextWrap]_vars

\* ------------------------------------------------------------------------
\* The harness started near the wrap with one long-lived record: the state after
\* registerHandlerForTags(INFO, cb, ctx 1, {T1}) was given id 1 and LongLivedRounds
\* rounds of registerHandlerForTags(INFO, cb, nullptr, no tags) followed by
\* deleteHandlerByID of the id just given.  The long-lived registration counts
\* among the MaxRegs of the harness.
LongLivedRounds == IdModulus - 3

InitLongLived ==
    /\ handlers = [j \in Slots |->
                      IF j = 0
                      THEN HandlerEntryCtor(1, NULLPTR, INFO, Callback, 1, <<"T1">>, 1, TRUE)
                      ELSE IF j = 1
                      THEN HandlerEntryCtor(LongLivedRounds + 1, NULLPTR, INFO, Callback,
                                            NullCtx, << >>, 0, TRUE)
                      ELSE DefaultEntry]
    /\ handlerCount = 1
    /\ nextHandlerId = LongLivedRounds + 2
    /\ tags = [t \in Tags |-> IF t = "T1" THEN <<[slot |-> 0, owner |-> 1]>> ELSE << >>]
    /\ logManager = TRUE
    /\ timestampProvider = NULLPTR
    /\ logSequence = 1
    /\ calls = << >>
    /\ providerCalled = FALSE
    /\ lastOp = [op |-> "deleteByID", ret |-> TRUE]
    /\ regs = LongLivedRounds + 1
    /\ subscribed = {<<1, "T1">>}
    /\ removed = {NullCtx}
    /\ lastId = LongLivedRounds + 1
    /\ seqUsed = 0
    /\ inflight = NoInflight
    /\ walk = NoWalk
    /\ otherManager = NewManager

NextLongLived == NextFrom(LongLivedRounds)

SpecLongLived == InitLongLived /\ [][NextLongLived]_vars

\* ------------------------------------------------------------------------
\* A harness for the Logger: a Logger constructed with a HandlerManager or with
\* nullptr, a few registrations, and log calls with and without an explicit
\* timestamp, with and without a timestamp provider installed.
MaxLogRegs == 2
MaxSeq == 3
Provider == "provider"
Providers == {NULLPTR, Provider}
\* what the provider returns when called
ProviderValues == {0, 42}
LogTimestamps == {0} \cup ExplicitTimestamps
LogTagLists == {<<"T1">>, <<"T1", "T2">>}

InitLog ==
    /\ handlers = [j \in Slots |-> DefaultEntry]
    /\ handlerCount = 0
    /\ nextHandlerId = 1
    /\ tags = [t \in Tags |-> << >>]
    /\ logManager \in BOOLEAN
    /\ timestampProvider = NULLPTR
    /\ logSequence = 1
    /\ calls = << >>
    /\ providerCalled = FALSE
    /\ lastOp = [op |-> "init", ret |-> TRUE]
    /\ regs = 0
    /\ subscribed = {}
    /\ removed = {}
    /\ lastId = 0
    /\ seqUsed = 0
    /\ inflight = NoInflight
    /\ walk = NoWalk
    /\ otherManager = NewManager

NextLog ==
    \/ \E a \in RegArgs, tl \in LogTagLists :
          /\ regs < MaxLogRegs
          /\ RegisterHandlerForTags(a[1], Callback, regs + 1, tl, Len(tl), a[2])
    \/ \E id \in 1 .. MaxLogRegs : DeleteHandlerByID(id)
    \/ ClearHandlers
    \/ \E fn \in Providers : SetTimestampProvider(fn)
    \/ \E level \in LogLevels, tag \in Tags, ts \in LogTimestamps, pv \in ProviderValues,
          ub \in UbOutcomes :
          /\ ts # 0 \/ timestampProvider # NULLPTR \/ logSequence <= MaxSeq
          /\ Log(level, tag, Message, ts, pv, ub)

SpecLog == InitLog /\ [][NextLog]_vars

\* ------------------------------------------------------------------------
\* Vocabulary of the properties.

ActiveSlots == {i \in Slots : i < handlerCount}
DeleteOps == {"deleteByID", "deleteByName"}
\* the contexts of the callbacks a walk invoked
Invoked(cs) == {cs[k].context : k \in 1 .. Len(cs)}
\* the active records that subscribed to tag, are enabled and whose threshold level meets
Eligible(level, tag) ==
    {handlers[i].context : i \in {j \in ActiveSlots :
        /\ <<handlers[j].context, tag>> \in subscribed
        /\ handlers[j].enabled
        /\ level >= handlers[j].level}}
\* a step that is a log call with the harness's arguments
IsLog(level, tag) ==
    \E ts \in ExplicitTimestamps, ub \in UbOutcomes : Log(level, tag, Message, ts, 0, ub)
\* a step that is a successful delete; the record it removed
DeleteSucceeds == lastOp'.op \in DeleteOps /\ lastOp'.ret
RemovedCtx == CHOOSE c \in removed' \ removed : TRUE
RemovedSlot == CHOOSE i \in ActiveSlots : handlers[i].context = RemovedCtx
\* what a log call on tag at level would invoke, given a registry and topic lists
WouldInvoke(tg, h, level, tag) ==
    Walk(tg[tag], h, level, [level |-> level, tag |-> tag, message |-> Message,
                             timestamp |-> CHOOSE ts \in ExplicitTimestamps : TRUE],
         "continue", 1)
\* the topics whose subscriber list holds an entry made by the record with context c
SubscriptionsOf(tg, c) ==
    {t \in Tags : \E k \in 1 .. Len(tg[t]) : tg[t][k].owner = c}

\* C1: a log call invokes exactly the handlers that are active, subscribed to the
\* tag, enabled and whose threshold the level meets, each with its own callback
\* and context.
C1_EmitInvokesExactlyEligible ==
    [][\A level \in LogLevels, tag \in Tags :
          IsLog(level, tag) =>
             /\ Invoked(calls') = Eligible(level, tag)
             /\ \A k \in 1 .. Len(calls') : calls'[k].handler = Callback]_vars

\* C2 (I1): every subscriber entry of every tag points at an active slot, and that
\* slot holds the record that made the subscription.
C2_EntriesReferenceActiveSubscriber ==
    \A t \in Tags : \A k \in 1 .. Len(tags[t]) :
        /\ tags[t][k].slot < handlerCount
        /\ handlers[tags[t][k].slot].context = tags[t][k].owner

\* C3: a successful delete leaves every other active record subscribed to the
\* topics it was subscribed to, and a log call on any topic invokes the surviving
\* handlers exactly as before the delete.
C3_DeleteLeavesOthersIntact ==
    [][DeleteSucceeds =>
          /\ \A i \in ActiveSlots : handlers[i].context # RemovedCtx =>
                SubscriptionsOf(tags', handlers[i].context)
                   = SubscriptionsOf(tags, handlers[i].context)
          /\ \A level \in LogLevels, tag \in Tags :
                WouldInvoke(tags', handlers', level, tag)
                   = SelectSeq(WouldInvoke(tags, handlers, level, tag),
                               LAMBDA c : c.context # RemovedCtx)]_vars

\* C4 (I4): after a successful delete no tag's subscriber list holds an entry of
\* the removed handler: none that it made, none that points at its record.
C4_NoEntryOfRemovedHandler ==
    [][DeleteSucceeds =>
          \A t \in Tags : \A k \in 1 .. Len(tags'[t]) :
              /\ tags'[t][k].owner # RemovedCtx
              /\ handlers'[tags'[t][k].slot].context # RemovedCtx]_vars

\* C5: once a delete has removed a handler, no log call invokes it again; and right
\* after the delete a lookup of the same id (or of the same name, when no other
\* active record bears it) finds nothing, so a second delete returns false.
C5_RemovedHandlerNeverInvoked ==
    [][/\ \A level \in LogLevels, tag \in Tags :
             IsLog(level, tag) => Invoked(calls') \cap removed = {}
       /\ DeleteSucceeds =>
             /\ lastOp'.op = "deleteByID" =>
                   FindEntryByID(handlers', handlerCount', handlers[RemovedSlot].id) = -1
             /\ (/\ lastOp'.op = "deleteByName"
                 /\ \A i \in ActiveSlots \ {RemovedSlot} :
                       handlers[i].name # handlers[RemovedSlot].name) =>
                   FindEntryByName(handlers', handlerCount',
                                   handlers[RemovedSlot].name) = -1]_vars

\* C6: a register call made when handlerCount equals MAX_HANDLERS returns false and
\* changes neither the registry nor any tag's subscriber list.
C6_RegisterAtCapacityFails ==
    [][(lastOp'.op = "register" /\ handlerCount = MAX_HANDLERS) =>
          /\ lastOp'.ret = FALSE
          /\ UNCHANGED <<handlers, handlerCount, nextHandlerId, tags>>]_vars

C6_Witness ==
    /\ lastOp = [op |-> "register", ret |-> FALSE]
    /\ handlerCount = MAX_HANDLERS
    /\ \E t \in Tags : tags[t] # << >>

\* C7: between two clears the ids of successive successful registrations are
\* consecutive, the first being 1, whatever deletes and failed registrations happen
\* in between.
C7_IdsConsecutive ==
    [][(lastOp'.op = "register" /\ lastOp'.ret) =>
          handlers'[handlerCount].id = IF lastId = 0 THEN 1 ELSE lastId + 1]_vars

\* C8 (I2): every active record has a nonzero id and no two active records share one.
C8_IdsNonzeroUnique ==
    /\ \A i \in ActiveSlots : handlers[i].id # 0
    /\ \A i, j \in ActiveSlots : i # j => handlers[i].id # handlers[j].id

\* C9: after clearHandlers, listHandlers reports no record, and the next successful
\* register is given id 1, whatever the registry held and whatever nextHandlerId was.
C9_ClearResetsIds ==
    [][/\ lastOp'.op = "clear" =>
             ListHandlers(handlers', handlerCount').outCount = 0
       /\ (lastOp'.op = "register" /\ lastOp'.ret /\ lastId = 0) =>
             /\ ListHandlers(handlers', handlerCount').outCount = 1
             /\ ListHandlers(handlers', handlerCount').entries[0].id = 1]_vars

\* a registration that followed a clear made after earlier registrations
C9_Witness ==
    /\ lastOp = [op |-> "register", ret |-> TRUE]
    /\ regs >= 2
    /\ handlerCount = 1
    /\ handlers[0].id = 1

\* C10: clearHandlers leaves no entry in any tag's subscriber list, so that log calls
\* invoke nothing until a new registration is made.
C10_ClearPrunesEveryTag ==
    [][/\ lastOp'.op = "clear" => \A t \in Tags : tags'[t] = << >>
       /\ \A level \in LogLevels, tag \in Tags :
             (IsLog(level, tag) /\ handlerCount = 0 /\ lastId = 0) => calls' = << >>]_vars

\* C11: clearHandlers does not touch the Tags: every tag's subscriber list, and so
\* its handlerCount, is after the call what it was before.
C11_ClearKeepsTagLists ==
    [][lastOp'.op = "clear" =>
          \A t \in Tags : tags'[t] = tags[t] /\ Len(tags'[t]) = Len(tags[t])]_vars

\* C12: deleteHandlerByID with an id no active record has, and deleteHandlerByName
\* with a name no active record has, return false and change neither the records,
\* handlerCount, nextHandlerId nor any tag's subscriber list.
C12_DeleteAbsentChangesNothing ==
    [][/\ \A id \in DeleteIds(0) :
             (/\ lastOp'.op = "deleteByID"
              /\ \A i \in ActiveSlots : handlers[i].id # id
              /\ DeleteHandlerByID(id)) =>
                /\ lastOp'.ret = FALSE
                /\ UNCHANGED <<handlers, handlerCount, nextHandlerId, tags>>
       /\ \A name \in DelNames :
             (/\ lastOp'.op = "deleteByName"
              /\ \A i \in ActiveSlots : handlers[i].name # name
              /\ DeleteHandlerByName(name)) =>
                /\ lastOp'.ret = FALSE
                /\ UNCHANGED <<handlers, handlerCount, nextHandlerId, tags>>]_vars

\* a failed delete while a slot past the active ones still holds the record of a
\* removed handler and a tag has subscribers
C12_Witness ==
    /\ lastOp.op \in DeleteOps /\ ~lastOp.ret
    /\ handlerCount \in 1 .. (MAX_HANDLERS - 1)
    /\ handlers[handlerCount].id # 0
    /\ \E t \in Tags : tags[t] # << >>

\* C13: a record registered without a name is never matched by deleteHandlerByName:
\* when every active record is unnamed the call returns false, whatever the name,
\* and the registry and the tag lists are unchanged.
C13_UnnamedNeverMatched ==
    [][\A name \in DelNames :
          (/\ lastOp'.op = "deleteByName"
           /\ \A i \in ActiveSlots : handlers[i].name = NULLPTR
           /\ DeleteHandlerByName(name)) =>
             /\ lastOp'.ret = FALSE
             /\ UNCHANGED <<handlers, handlerCount, nextHandlerId, tags>>]_vars

\* a deleteHandlerByName that failed on a registry of unnamed, subscribed records
C13_Witness ==
    /\ lastOp = [op |-> "deleteByName", ret |-> FALSE]
    /\ handlerCount >= 2
    /\ \A i \in ActiveSlots : handlers[i].name = NULLPTR
    /\ \E t \in Tags : tags[t] # << >>

\* the active slots, before a step, of the records bearing name
NamedSlots(name) == {i \in ActiveSlots : handlers[i].name = name}
\* the contexts of the records listHandlers reports, in order
ListedContexts(h, count) == [k \in 1 .. count |-> ListHandlers(h, count).entries[k - 1].context]
\* tag t holds a pointer that designates an active record of the handler with context c
PointsAtActive(tg, h, count, t, c) ==
    \E k \in 1 .. Len(tg[t]) : tg[t][k].slot < count /\ h[tg[t][k].slot].context = c

\* C14: when several active records bear the name, deleteHandlerByName removes
\* exactly one, the earliest registered; the others stay in listHandlers, in
\* order, and stay subscribed to every topic they subscribed to (the topic still
\* holds a pointer to their record), the topics shared with the removed record
\* included.
C14_DeleteByNameRemovesFirstOnly ==
    [][\A name \in DelNames :
          (Cardinality(NamedSlots(name)) >= 2 /\ DeleteHandlerByName(name)) =>
             LET first == CHOOSE i \in NamedSlots(name) : \A j \in NamedSlots(name) : i <= j
             IN  /\ lastOp'.ret = TRUE
                 /\ ListedContexts(handlers', handlerCount')
                       = SelectSeq(ListedContexts(handlers, handlerCount),
                                   LAMBDA c : c # handlers[first].context)
                 /\ \A i \in NamedSlots(name) \ {first} : \A t \in Tags :
                        <<handlers[i].context, t>> \in subscribed =>
                           PointsAtActive(tags', handlers', handlerCount', t,
                                          handlers[i].context)]_vars

\* the records listHandlers reports, as (context, id, name, level), in order
Listed(h, count) ==
    [k \in 1 .. count |->
        LET e == ListHandlers(h, count).entries[k - 1]
        IN  [context |-> e.context, id |-> e.id, name |-> e.name, level |-> e.level]]
\* a step that is a successful register call with threshold and name a
IsRegister(a) ==
    /\ lastOp'.op = "register" /\ lastOp'.ret
    /\ \E tl \in TagLists : RegisterHandlerForTags(a[1], Callback, regs + 1, tl, Len(tl), a[2])

\* C15: listHandlers reports the active records in registration order, each with
\* the name, threshold and id it was registered with: a register appends its record
\* to the list and leaves the others as they were, a delete takes one record out
\* and leaves the others in order with their ids, names and thresholds, and no
\* other call changes what is listed (clear empties the list).
C15_ListInRegistrationOrder ==
    [][/\ \A a \in RegArgs :
             IsRegister(a) =>
                Listed(handlers', handlerCount')
                   = Append(Listed(handlers, handlerCount),
                            [context |-> regs + 1, id |-> nextHandlerId,
                             name |-> a[2], level |-> a[1]])
       /\ DeleteSucceeds =>
             Listed(handlers', handlerCount')
                = SelectSeq(Listed(handlers, handlerCount),
                            LAMBDA r : r.context # RemovedCtx)
       /\ lastOp'.op = "clear" => Listed(handlers', handlerCount') = << >>
       /\ (lastOp'.op \in {"log", "setEnabled"} \/ ~lastOp'.ret) =>
             Listed(handlers', handlerCount') = Listed(handlers, handlerCount)
       /\ \A k \in 1 .. (handlerCount' - 1) :
             Listed(handlers', handlerCount')[k].context
                < Listed(handlers', handlerCount')[k + 1].context]_vars

\* a delete took out a record that was not the last one and left two, in order
C15_Witness ==
    /\ lastOp.op \in DeleteOps /\ lastOp.ret
    /\ handlerCount = 2
    /\ handlers[0].context < handlers[1].context
    /\ handlers[2].context = handlers[1].context
    /\ handlers[0].name # handlers[1].name

\* a step that is a log call with that explicit timestamp (0 for none), in which the
\* provider returns pv if it is called
IsLogWith(level, tag, ts, pv) ==
    /\ lastOp'.op = "log"
    /\ \E ub \in UbOutcomes : Log(level, tag, Message, ts, pv, ub)
\* the timestamps of the messages a walk delivered
Timestamps(cs) == {cs[k].msg.timestamp : k \in 1 .. Len(cs)}

\* C16: every message a log call of a bound Logger delivers carries the explicit
\* timestamp when that is nonzero, also when a provider is installed; otherwise
\* what the installed provider returned; otherwise the value logSequence had when
\* the call was made.
C16_TimestampPrecedence ==
    [][\A level \in LogLevels, tag \in Tags, ts \in LogTimestamps, pv \in ProviderValues :
          (logManager /\ IsLogWith(level, tag, ts, pv)) =>
             Timestamps(calls') \subseteq
                {IF ts # 0 THEN ts
                 ELSE IF timestampProvider # NULLPTR THEN pv
                 ELSE logSequence}]_vars

\* a message was delivered with the explicit timestamp while a provider was installed
C16_Witness ==
    /\ lastOp.op = "log"
    /\ timestampProvider = Provider
    /\ calls # << >>
    /\ Timestamps(calls) \subseteq ExplicitTimestamps

\* C17: logSequence starts at 1 and is one more than the number of log calls that
\* used it: the k-th such call delivers timestamp k and advances it by exactly 1,
\* whether or not it invokes a handler; a log call with an explicit timestamp or
\* with a provider installed, a log call of an unbound Logger, register, delete,
\* clear and setTimestampProvider leave it unchanged.
C17_FallbackSequence ==
    [][/\ logSequence = seqUsed + 1
       /\ \A level \in LogLevels, tag \in Tags, ts \in LogTimestamps, pv \in ProviderValues :
             (logManager /\ IsLogWith(level, tag, ts, pv)) =>
                IF ts = 0 /\ timestampProvider = NULLPTR
                THEN /\ logSequence' = logSequence + 1
                     /\ Timestamps(calls') \subseteq {seqUsed + 1}
                ELSE logSequence' = logSequence
       /\ (lastOp'.op # "log" \/ ~logManager) => logSequence' = logSequence]_vars

\* the last of MaxSeq log calls that used the counter delivered timestamp MaxSeq
\* to the only handler registered
C17_Witness ==
    /\ lastOp.op = "log"
    /\ seqUsed = MaxSeq
    /\ logSequence = MaxSeq + 1
    /\ calls # << >>
    /\ Timestamps(calls) = {MaxSeq}
    /\ handlerCount = 1 /\ regs = 1 /\ tags["T2"] = << >>

\* C18: a log call of a Logger constructed without a HandlerManager invokes no
\* handler, does not call the timestamp provider and leaves logSequence, the
\* registry and every tag's subscriber list unchanged, also when the tag has
\* subscribers and a provider is installed.
C18_UnboundLogIsNoOp ==
    [][(lastOp'.op = "log" /\ ~logManager) =>
          /\ calls' = << >>
          /\ providerCalled' = FALSE
          /\ UNCHANGED <<logSequence, timestampProvider, tags, handlers, handlerCount,
                         nextHandlerId>>]_vars

\* an unbound Logger logged while every tag had subscribers and a provider was installed
C18_Witness ==
    /\ lastOp.op = "log"
    /\ ~logManager
    /\ timestampProvider = Provider
    /\ \A t \in Tags : tags[t] # << >>

\* the contexts a walk invoked, in order, those of eligible handlers only
EligibleCalls(cs, level, tag) ==
    SelectSeq([k \in 1 .. Len(cs) |-> cs[k].context], LAMBDA c : c \in Eligible(level, tag))

\* C19: a log call invokes the eligible subscribers of the tag in the order in
\* which they were registered (the harness numbers the contexts in registration
\* order): every eligible handler is invoked, and none before one registered
\* earlier; deletes made before the call do not change this for the survivors.
C19_InvokedInRegistrationOrder ==
    [][\A level \in LogLevels, tag \in Tags :
          IsLog(level, tag) =>
             LET inv == EligibleCalls(calls', level, tag)
             IN  /\ Eligible(level, tag) \subseteq {inv[k] : k \in 1 .. Len(inv)}
                 /\ \A k \in 1 .. (Len(inv) - 1) : inv[k] <= inv[k + 1]]_vars

\* the tags among the first count of tagList
Requested(tagList, count) == {tagList[k] : k \in 1 .. count}
\* a step that is a register call with that tag list
IsRegisterFor(tl) ==
    /\ lastOp'.op = "register"
    /\ \E a \in RegArgs : RegisterHandlerForTags(a[1], Callback, regs + 1, tl, Len(tl), a[2])

\* C20: a register call made while the registry has room and a requested tag is
\* full returns true and adds the record; the full tag's list is unchanged, and
\* every other requested tag that has room holds, after the call, a pointer to the
\* new record.
C20_FullTagDropsOneSubscription ==
    [][\A tl \in TagLists :
          (/\ IsRegisterFor(tl)
           /\ handlerCount < MAX_HANDLERS
           /\ \E t \in Requested(tl, Len(tl)) : Len(tags[t]) = MAX_TAG_SUBSCRIPTIONS) =>
             /\ lastOp'.ret = TRUE
             /\ handlerCount' = handlerCount + 1
             /\ handlers'[handlerCount].context = regs + 1
             /\ \A t \in Requested(tl, Len(tl)) :
                    IF Len(tags[t]) = MAX_TAG_SUBSCRIPTIONS
                    THEN tags'[t] = tags[t]
                    ELSE \E k \in 1 .. Len(tags'[t]) :
                            /\ tags'[t][k].slot = handlerCount
                            /\ tags'[t][k].owner = regs + 1]_vars

\* a record registered for T1 and T2 while T1 was full: T1 holds no entry of it,
\* T2 does
C20_Witness ==
    /\ lastOp = [op |-> "register", ret |-> TRUE]
    /\ handlerCount >= 1
    /\ handlers[handlerCount - 1].tagList = <<"T1", "T2">>
    /\ Len(tags["T1"]) = MAX_TAG_SUBSCRIPTIONS
    /\ \A k \in 1 .. Len(tags["T1"]) : tags["T1"][k].owner # handlers[handlerCount - 1].context
    /\ \E k \in 1 .. Len(tags["T2"]) : tags["T2"][k].owner = handlers[handlerCount - 1].context

\* C21: a register call with more tags than MAX_TAG_SUBSCRIPTIONS is cut to its
\* first MAX_TAG_SUBSCRIPTIONS tags: the record stores those, and a tag that is only
\* among the later ones gets no entry, so that no log call on it invokes the
\* handler.
C21_TruncatedToCapacity ==
    [][\A tl \in TagLists :
          (Len(tl) > MAX_TAG_SUBSCRIPTIONS /\ IsRegisterFor(tl) /\ lastOp'.ret) =>
             /\ handlers'[handlerCount].tagList = SubSeq(tl, 1, MAX_TAG_SUBSCRIPTIONS)
             /\ handlers'[handlerCount].tagCount = MAX_TAG_SUBSCRIPTIONS
             /\ \A t \in Tags \ Requested(tl, MAX_TAG_SUBSCRIPTIONS) :
                    /\ tags'[t] = tags[t]
                    /\ \A level \in LogLevels :
                           regs + 1 \notin Invoked(WouldInvoke(tags', handlers', level, t))]_vars

\* C22 (I3): handlerCount never exceeds MAX_HANDLERS and no tag's subscriber count
\* exceeds MAX_TAG_SUBSCRIPTIONS, whatever register, delete and clear calls are made.
C22_CountsWithinCapacity ==
    /\ handlerCount \in 0 .. MAX_HANDLERS
    /\ \A t \in Tags : Len(tags[t]) <= MAX_TAG_SUBSCRIPTIONS

\* a register call was made with the registry full and every tag full
C22_Witness ==
    /\ lastOp.op = "register"
    /\ handlerCount = MAX_HANDLERS
    /\ \A t \in Tags : Len(tags[t]) = MAX_TAG_SUBSCRIPTIONS

\* C23: severity filtering is monotone: a log call on a tag at a level invokes an
\* active, enabled handler that subscribed to the tag exactly when the level is not
\* below the handler's threshold, and a handler it invokes would also be invoked
\* at every higher level.
C23_SeverityFilterMonotone ==
    [][\A level \in LogLevels, tag \in Tags :
          IsLog(level, tag) =>
             \A j \in ActiveSlots :
                (<<handlers[j].context, tag>> \in subscribed /\ handlers[j].enabled) =>
                   /\ handlers[j].context \in Invoked(calls') <=> level >= handlers[j].level
                   /\ \A higher \in Levels :
                          (higher > level /\ handlers[j].context \in Invoked(calls')) =>
                             handlers[j].context
                                \in Invoked(WouldInvoke(tags, handlers, higher, tag))]_vars

\* C24: a delete reclaims the slot: a successful delete on a full registry leaves
\* room for exactly one registration (the next register succeeds and fills the
\* registry again), and the id that registration is given is not the id of the
\* record removed.
C24_DeleteReclaimsSlot ==
    [][/\ (DeleteSucceeds /\ handlerCount = MAX_HANDLERS) =>
             /\ handlerCount' = MAX_HANDLERS - 1
             /\ nextHandlerId' # handlers[RemovedSlot].id
       /\ (lastOp'.op = "register" /\ handlerCount = MAX_HANDLERS - 1) =>
             /\ lastOp'.ret = TRUE
             /\ handlerCount' = MAX_HANDLERS
             /\ handlers'[handlerCount].id = nextHandlerId]_vars

\* ------------------------------------------------------------------------
\* The calls taken one step at a time.  registerHandlerForTags is createEntry, then
\* subscribeEntryToTags; deleteHandlerByID is findEntryByID, then
\* unsubscribeEntryFromTags, then compactHandlerArray; Logger::log is the choice of
\* the timestamp, then one turn of the subscriber loop per step.  Nothing in the
\* code keeps another call from running between two steps.

\* registerHandlerForTags up to and including createEntry; entry is the reference
\* createEntry returns, &handlers[handlerCount before the call]
RegisterCreate(level, fn, ctx, tagList, tagCount, name) ==
    IF ~HasCapacity(handlerCount)
    THEN /\ lastOp' = [op |-> "register", ret |-> FALSE]
         /\ calls' = << >> /\ providerCalled' = FALSE
         /\ UNCHANGED <<registry, tags, loggerState, history, aside>>
    ELSE LET r == CreateEntry(handlers, handlerCount, nextHandlerId,
                              level, fn, ctx, tagList, tagCount, name)
         IN  /\ handlers' = r.handlers
             /\ handlerCount' = r.handlerCount
             /\ nextHandlerId' = r.nextHandlerId
             /\ inflight' = [kind |-> "register", entry |-> handlerCount,
                             tagList |-> tagList, tagCount |-> tagCount, ctx |-> ctx,
                             removed0 |-> removed]
             /\ lastOp' = [op |-> "createEntry", ret |-> TRUE]
             /\ calls' = << >> /\ providerCalled' = FALSE
             /\ regs' = regs + 1
             /\ lastId' = nextHandlerId
             /\ UNCHANGED <<tags, loggerState, subscribed, removed, walk, otherManager>>

\* the rest of registerHandlerForTags: subscribeEntryToTags(&entry, tagList, tagCount);
\* return true
RegisterSubscribe ==
    /\ inflight.kind = "register"
    /\ LET tg == SubscribeEntryToTags(tags, inflight.entry, inflight.ctx,
                                      inflight.tagList, inflight.tagCount, 1)
       IN  /\ tags' = tg
           /\ subscribed' = subscribed \cup
                  {<<inflight.ctx, t>> : t \in {u \in Tags : Len(tg[u]) > Len(tags[u])}}
    /\ inflight' = NoInflight
    /\ lastOp' = [op |-> "register", ret |-> TRUE]
    /\ calls' = << >> /\ providerCalled' = FALSE
    /\ UNCHANGED <<registry, loggerState, regs, removed, lastId, walk, otherManager>>

\* deleteHandlerByID up to the null test: e = findEntryByID(id); if (!e) return false
DeleteLocate(id) ==
    LET e == FindEntryByID(handlers, handlerCount, id)
    IN  /\ IF e = -1
           THEN /\ lastOp' = [op |-> "deleteByID", ret |-> FALSE]
                /\ inflight' = inflight
           ELSE /\ lastOp' = [op |-> "findEntryByID", ret |-> TRUE]
                /\ inflight' = [kind |-> "unsubscribe", entry |-> e,
                                tagList |-> handlers[e].tagList,
                                tagCount |-> handlers[e].tagCount,
                                ctx |-> handlers[e].context, removed0 |-> removed]
        /\ calls' = << >> /\ providerCalled' = FALSE
        /\ UNCHANGED <<registry, tags, loggerState, history, walk, otherManager>>

\* deleteHandlerByID, second step: unsubscribeEntryFromTags(e)
DeleteUnsubscribe ==
    /\ inflight.kind = "unsubscribe"
    /\ tags' = UnsubscribeEntryFromTags(tags, handlers, inflight.entry, 1)
    /\ inflight' = [inflight EXCEPT !.kind = "compact"]
    /\ lastOp' = [op |-> "unsubscribeEntryFromTags", ret |-> TRUE]
    /\ calls' = << >> /\ providerCalled' = FALSE
    /\ UNCHANGED <<registry, loggerState, history, walk, otherManager>>

\* deleteHandlerByID, last step: compactHandlerArray(e - handlers); return true
DeleteCompact ==
    /\ inflight.kind = "compact"
    /\ LET r == CompactHandlerArray(handlers, handlerCount, inflight.entry)
       IN  /\ handlers' = r.handlers
           /\ handlerCount' = r.handlerCount
    /\ removed' = removed \cup {handlers[inflight.entry].context}
    /\ inflight' = NoInflight
    /\ lastOp' = [op |-> "deleteByID", ret |-> TRUE]
    /\ calls' = << >> /\ providerCalled' = FALSE
    /\ UNCHANGED <<nextHandlerId, tags, loggerState, regs, subscribed, lastId, walk, otherManager>>

\* Logger::log up to the subscriber loop: the null test and the choice of the timestamp
LogBegin(level, tag, timestamp, providerValue) ==
    IF IsUnbound(logManager)
    THEN /\ lastOp' = [op |-> "log", ret |-> TRUE]
         /\ calls' = << >> /\ providerCalled' = FALSE
         /\ UNCHANGED <<registry, tags, loggerState, history, aside>>
    ELSE LET r == ResolveTimestamp(timestamp, timestampProvider, logSequence, providerValue)
         IN  /\ logSequence' = r.seq
             /\ providerCalled' = r.called
             /\ seqUsed' = IF timestamp = 0 /\ timestampProvider = NULLPTR
                            THEN seqUsed + 1 ELSE seqUsed
             /\ calls' = << >>
             /\ walk' = [active |-> TRUE, level |-> level, tag |-> tag, ts |-> r.ts,
                         i |-> 1, eligible |-> Eligible(level, tag), removers |-> {}]
             /\ lastOp' = [op |-> "logBegin", ret |-> TRUE]
             /\ UNCHANGED <<registry, tags, logManager, timestampProvider, history,
                            inflight, otherManager>>

\* One turn of for (i = 0; i < tag->handlerCount; ++i): the loop test, the enabled
\* and level tests, the callback.  The callback either returns at once or first
\* calls deleteHandlerByID with the id of the record it was called for
\* (selfRemove); the loop then goes on with ++i on the Tag as the delete left it.
WalkStep(selfRemove, ub) ==
    /\ walk.active
    /\ IF walk.i > Len(tags[walk.tag])
       THEN /\ walk' = NoWalk
            /\ lastOp' = [op |-> "log", ret |-> TRUE]
            /\ UNCHANGED <<registry, tags, loggerState, calls, providerCalled, history,
                           inflight, otherManager>>
       ELSE LET e == handlers[tags[walk.tag][walk.i].slot]
                msg == [level |-> walk.level, tag |-> walk.tag, message |-> Message,
                        timestamp |-> walk.ts]
                call == [handler |-> e.handler, context |-> e.context, msg |-> msg]
                own == FindEntryByID(handlers, handlerCount, e.id)
            IN  IF ~e.enabled \/ walk.level < e.level
                THEN /\ walk' = [walk EXCEPT !.i = @ + 1]
                     /\ UNCHANGED <<registry, tags, loggerState, calls, providerCalled,
                                    lastOp, history, inflight, otherManager>>
                ELSE /\ calls' = Append(calls, call)
                     /\ IF e.handler = NULLPTR /\ ub = "abort"
                        THEN /\ walk' = NoWalk
                             /\ lastOp' = [op |-> "log", ret |-> TRUE]
                             /\ UNCHANGED <<registry, tags, removed>>
                        ELSE IF selfRemove /\ own # -1
                        THEN LET r == CompactHandlerArray(handlers, handlerCount, own)
                             IN  /\ tags' = UnsubscribeEntryFromTags(tags, handlers, own, 1)
                                 /\ handlers' = r.handlers
                                 /\ handlerCount' = r.handlerCount
                                 /\ removed' = removed \cup {handlers[own].context}
                                 /\ walk' = [walk EXCEPT !.i = @ + 1,
                                                         !.removers = @ \cup {e.context}]
                                 /\ UNCHANGED <<nextHandlerId, lastOp>>
                        ELSE /\ walk' = [walk EXCEPT !.i = @ + 1]
                             /\ UNCHANGED <<registry, tags, removed, lastOp>>
                     /\ UNCHANGED <<loggerState, providerCalled, regs, subscribed, lastId,
                                    inflight, otherManager>>

\* the harness of the stepwise calls: at most MaxStepRegs registrations
MaxStepRegs == 3
StepTagLists == {<<"T1">>, <<"T1", "T2">>, LongTagList}
StepLevels == {INFO, WARN}

\* One call at a time is taken in steps; while it stands between two steps,
\* whole calls run: a delete or a log between the steps of a register, a register
\* or a log between the steps of a delete.  A log call's loop runs to its end
\* before anything else, its callbacks apart.
NextSteps ==
    \/ \E a \in RegArgs, tl \in StepTagLists :
          /\ inflight.kind = "none" /\ ~walk.active
          /\ regs < MaxStepRegs
          /\ RegisterCreate(a[1], Callback, regs + 1, tl, Len(tl), a[2])
    \/ RegisterSubscribe
    \/ \E id \in 1 .. MaxStepRegs :
          /\ inflight.kind = "none" /\ ~walk.active
          /\ DeleteLocate(id)
    \/ DeleteUnsubscribe
    \/ DeleteCompact
    \/ \E id \in 1 .. MaxStepRegs :
          /\ inflight.kind = "register"
          /\ DeleteHandlerByID(id)
    \/ \E a \in RegArgs, tl \in StepTagLists :
          /\ inflight.kind \in {"unsubscribe", "compact"}
          /\ regs < MaxStepRegs
          /\ RegisterHandlerForTags(a[1], Callback, regs + 1, tl, Len(tl), a[2])
    \/ \E level \in StepLevels, tag \in Tags, ts \in ExplicitTimestamps, ub \in UbOutcomes :
          /\ inflight.kind # "none"
          /\ Log(level, tag, Message, ts, 0, ub)
    \/ \E level \in StepLevels, tag \in Tags, ts \in ExplicitTimestamps :
          /\ inflight.kind = "none" /\ ~walk.active
          /\ LogBegin(level, tag, ts, 0)
    \/ \E selfRemove \in BOOLEAN, ub \in UbOutcomes : WalkStep(selfRemove, ub)

SpecSteps == Init /\ [][NextSteps]_vars

\* C25: deleteHandlerByID first locates the record, then prunes it from the topic
\* lists, and only then compacts the registry: the first two steps leave the
\* registry as it is, and when the compaction overwrites the record's slot no topic
\* holds an entry of that record any more.
C25_PrunedBeforeCompaction ==
    [][/\ (inflight.kind = "none" /\ inflight'.kind = "unsubscribe") =>
             UNCHANGED <<registry, tags>>
       /\ (inflight.kind = "unsubscribe" /\ inflight'.kind = "compact") =>
             UNCHANGED registry
       /\ (inflight.kind = "compact" /\ inflight'.kind = "none") =>
             SubscriptionsOf(tags, handlers[inflight.entry].context) = {}]_vars

\* an entry of topic t, after a step, that does not reference an active slot
\* holding the record with context c
BadEntryOf(t, c) ==
    \E k \in 1 .. Len(tags'[t]) :
        /\ tags'[t][k].owner = c
        /\ \/ tags'[t][k].slot >= handlerCount'
           \/ handlers'[tags'[t][k].slot].context # c

\* C26: register is not atomic, and a call interleaved between its steps breaks
\* I1: when a successful delete runs between createEntry and subscribeEntryToTags,
\* the entries the register then adds reference a slot that is inactive or holds
\* another record; when no delete runs in between, they reference the new record.
C26_InterleavedDeleteBreaksEntries ==
    [][(inflight.kind = "register" /\ inflight'.kind = "none" /\ tags' # tags) =>
          ((removed # inflight.removed0) <=> \E t \in Tags : BadEntryOf(t, inflight.ctx))]_vars

\* a register has just returned true, the record it added is active, and a topic
\* holds an entry of that record that points past the active slots
C26_Witness ==
    /\ lastOp = [op |-> "register", ret |-> TRUE]
    /\ inflight.kind = "none"
    /\ \E i \in ActiveSlots : handlers[i].context = regs
    /\ \E t \in Tags : \E k \in 1 .. Len(tags[t]) :
          tags[t][k].owner = regs /\ tags[t][k].slot >= handlerCount

\* C27: when a callback removes its own record during a log call, every other
\* handler that was eligible for the call when it started is still invoked
\* exactly once by that call.
C27_SelfRemovalKeepsOthers ==
    [][(walk.active /\ ~walk'.active /\ walk.removers # {}) =>
          \A c \in walk.eligible \ walk.removers :
              Cardinality({k \in 1 .. Len(calls') : calls'[k].context = c}) = 1]_vars

\* C28: a log call changes neither the registry (records with their enabled
\* flags, handlerCount, nextHandlerId) nor any tag's subscriber list, nor the
\* Logger's manager and provider; it changes logSequence only when the call has
\* neither an explicit timestamp nor a provider, and then the handlers are given
\* the old value as timestamp.
C28_EmitFrame ==
    [][lastOp'.op = "log" =>
          /\ UNCHANGED <<registry, tags, logManager, timestampProvider>>
          /\ logSequence' # logSequence =>
                /\ seqUsed' = seqUsed + 1
                /\ ~providerCalled'
                /\ Timestamps(calls') \subseteq {logSequence}]_vars

\* a log call with a provider installed has just invoked two handlers, after
\* earlier log calls took their timestamp from the counter
C28_Witness ==
    /\ lastOp.op = "log"
    /\ providerCalled
    /\ Len(calls) = 2
    /\ seqUsed >= 1
    /\ logSequence = seqUsed + 1

\* ------------------------------------------------------------------------
\* Two HandlerManager objects and one Logger.  The Logger is constructed with the
\* first (handlers, handlerCount, nextHandlerId); otherManager is the second.  The
\* Tags are shared objects: each manager's subscribeEntryToTags appends to the
\* same Tag::handlers arrays.

\* A HandlerEntry pointer is the slot index for the first manager's array and
\* OtherBase + slot index for the second's.
OtherBase == MAX_HANDLERS
\* what a HandlerEntry pointer designates
Memory ==
    [p \in 0 .. (OtherBase + MAX_HANDLERS - 1) |->
        IF p < OtherBase THEN handlers[p] ELSE otherManager.handlers[p - OtherBase]]

\* HandlerManager::registerHandlerForTags called on the second manager
RegisterThroughOther(level, fn, ctx, tagList, tagCount, name) ==
    IF ~HasCapacity(otherManager.handlerCount)
    THEN /\ lastOp' = [op |-> "registerOther", ret |-> FALSE]
         /\ calls' = << >> /\ providerCalled' = FALSE
         /\ UNCHANGED <<registry, tags, loggerState, history, aside>>
    ELSE LET r == CreateEntry(otherManager.handlers, otherManager.handlerCount,
                              otherManager.nextHandlerId,
                              level, fn, ctx, tagList, tagCount, name)
             tg == SubscribeEntryToTags(tags, OtherBase + otherManager.handlerCount, ctx,
                                        tagList, tagCount, 1)
         IN  /\ otherManager' = r
             /\ tags' = tg
             /\ lastOp' = [op |-> "registerOther", ret |-> TRUE]
             /\ calls' = << >> /\ providerCalled' = FALSE
             /\ regs' = regs + 1
             /\ subscribed' = subscribed \cup
                    {<<ctx, t>> : t \in {u \in Tags : Len(tg[u]) > Len(tags[u])}}
             /\ UNCHANGED <<registry, loggerState, removed, lastId, stepState>>

\* Logger::log(level, tag, message, timestamp) where the Tag's pointers may
\* designate records of either manager
LogShared(level, tag, message, timestamp, providerValue, ub) ==
    IF IsUnbound(logManager)
    THEN /\ lastOp' = [op |-> "log", ret |-> TRUE]
         /\ calls' = << >> /\ providerCalled' = FALSE
         /\ UNCHANGED <<registry, tags, loggerState, history, aside>>
    ELSE LET r == ResolveTimestamp(timestamp, timestampProvider, logSequence, providerValue)
             msg == [level |-> level, tag |-> tag, message |-> message, timestamp |-> r.ts]
         IN  /\ logSequence' = r.seq
             /\ providerCalled' = r.called
             /\ seqUsed' = IF timestamp = 0 /\ timestampProvider = NULLPTR
                            THEN seqUsed + 1 ELSE seqUsed
             /\ calls' = Walk(tags[tag], Memory, level, msg, ub, 1)
             /\ lastOp' = [op |-> "log", ret |-> TRUE]
             /\ UNCHANGED <<registry, tags, logManager, timestampProvider, history, aside>>

\* at most MaxSharedRegs registrations, through either manager
MaxSharedRegs == 3

NextShared ==
    \/ \E a \in RegArgs, tl \in LogTagLists :
          /\ regs < MaxSharedRegs
          /\ RegisterHandlerForTags(a[1], Callback, regs + 1, tl, Len(tl), a[2])
    \/ \E a \in RegArgs, tl \in LogTagLists :
          /\ regs < MaxSharedRegs
          /\ RegisterThroughOther(a[1], Callback, regs + 1, tl, Len(tl), a[2])
    \/ \E id \in 1 .. MaxSharedRegs : DeleteHandlerByID(id)
    \/ \E level \in LogLevels, tag \in Tags, ts \in ExplicitTimestamps, ub \in UbOutcomes :
          LogShared(level, tag, Message, ts, 0, ub)

SpecShared == Init /\ [][NextShared]_vars

\* the contexts of the handlers registered through the second manager
OtherContexts ==
    {otherManager.handlers[i].context : i \in {j \in Slots : j < otherManager.handlerCount}}

\* C29: a log call of the Logger bound to the first HandlerManager invokes no
\* handler that was registered through the second one.
C29_OnlyOwnManagersHandlers ==
    [][lastOp'.op = "log" => Invoked(calls') \cap OtherContexts = {}]_vars

\* ------------------------------------------------------------------------
\* registerHandlerForTags followed at once by deleteHandlerByID of the id the
\* registration was given, as one step (made when the registry has room).
RegisterThenDelete(level, fn, ctx, tagList, tagCount, name) ==
    /\ handlerCount < MAX_HANDLERS
    /\ LET r == CreateEntry(handlers, handlerCount, nextHandlerId,
                            level, fn, ctx, tagList, tagCount, name)
           tg == SubscribeEntryToTags(tags, handlerCount, ctx, tagList, tagCount, 1)
           e == FindEntryByID(r.handlers, r.handlerCount, nextHandlerId)
           d == CompactHandlerArray(r.handlers, r.handlerCount, e)
       IN  /\ nextHandlerId' = r.nextHandlerId
           /\ subscribed' = subscribed \cup
                  {<<ctx, t>> : t \in {u \in Tags : Len(tg[u]) > Len(tags[u])}}
           /\ IF e = -1
              THEN /\ handlers' = r.handlers
                   /\ handlerCount' = r.handlerCount
                   /\ tags' = tg
                   /\ lastOp' = [op |-> "registerDelete", ret |-> FALSE]
                   /\ removed' = removed
              ELSE /\ handlers' = d.handlers
                   /\ handlerCount' = d.handlerCount
                   /\ tags' = UnsubscribeEntryFromTags(tg, r.handlers, e, 1)
                   /\ lastOp' = [op |-> "registerDelete", ret |-> TRUE]
                   /\ removed' = removed \cup {r.handlers[e].context}
    /\ regs' = regs + 1
    /\ lastId' = nextHandlerId
    /\ calls' = << >> /\ providerCalled' = FALSE
    /\ UNCHANGED <<loggerState, aside>>

\* at most MaxRoundTripRegs registrations, those of the round trips included
MaxRoundTripRegs == 3

NextRoundTrip ==
    \/ \E a \in RegArgs, tl \in TagLists :
          /\ regs < MaxRoundTripRegs
          /\ RegisterHandlerForTags(a[1], Callback, regs + 1, tl, Len(tl), a[2])
    \/ \E id \in 1 .. MaxRoundTripRegs : DeleteHandlerByID(id)
    \/ \E a \in RegArgs, tl \in TagLists :
          /\ regs < MaxRoundTripRegs
          /\ RegisterThenDelete(a[1], Callback, regs + 1, tl, Len(tl), a[2])

SpecRoundTrip == Init /\ [][NextRoundTrip]_vars

\* C30: a register followed at once by the delete of the record it added leaves
\* the active records, handlerCount and every tag's subscriber list as they were
\* before the register, and nextHandlerId one higher, whatever tag list was
\* passed.
C30_RegisterDeleteRoundTrip ==
    [][lastOp'.op = "registerDelete" =>
          /\ lastOp'.ret
          /\ handlerCount' = handlerCount
          /\ \A i \in ActiveSlots : handlers'[i] = handlers[i]
          /\ tags' = tags
          /\ nextHandlerId' = nextHandlerId + 1]_vars

\* the number of times tag t occurs in the stored tag lists of the active records
Occurrences(t) ==
    Cardinality({p \in ActiveSlots \X (1 .. MAX_TAG_SUBSCRIPTIONS) :
                    p[2] <= handlers[p[1]].tagCount /\ handlers[p[1]].tagList[p[2]] = t})

\* C31: a tag's subscriber list never holds more entries than the tag has
\* occurrences in the tag lists of the active records: deletes leave no entry
\* behind that keeps occupying the tag's capacity.
C31_NoLeftoverEntries ==
    \A t \in Tags : Len(tags[t]) <= Occurrences(t)

\* the number of times a walk invoked the callback with context c
TimesInvoked(cs, c) == Cardinality({k \in 1 .. Len(cs) : cs[k].context = c})

\* C32: one log call invokes every eligible handler exactly once, also a handler
\* whose registration named the tag more than once.
C32_InvokedExactlyOnce ==
    [][\A level \in LogLevels, tag \in Tags :
          IsLog(level, tag) =>
             \A c \in Eligible(level, tag) : TimesInvoked(calls', c) = 1]_vars

\* C33: the timestamp of a log call is resolved once, before the walk: all the
\* handlers the call invokes are given the same timestamp; when the provider is
\* called that timestamp is what it returned and logSequence stays; when the
\* counter is used it advances by exactly one, however many handlers are invoked.
C33_TimestampResolvedOnce ==
    [][lastOp'.op = "log" =>
          /\ Cardinality(Timestamps(calls')) <= 1
          /\ providerCalled' =>
                Timestamps(calls') \subseteq ProviderValues /\ logSequence' = logSequence
          /\ seqUsed' # seqUsed =>
                logSequence' = logSequence + 1 /\ Timestamps(calls') \subseteq {logSequence}
          /\ seqUsed' = seqUsed => logSequence' = logSequence]_vars

\* a log call without explicit timestamp and without provider has just invoked
\* two handlers, both with the value the counter had
C33_Witness ==
    /\ lastOp.op = "log"
    /\ timestampProvider = NULLPTR
    /\ Len(calls) = 2
    /\ calls[1].context # calls[2].context
    /\ Timestamps(calls) = {logSequence - 1}
    /\ seqUsed >= 1

\* C34: a record is enabled when registered; setEnabled changes nothing but the
\* flag of the record it is called on (handlerCount, nextHandlerId, the other
\* fields and records and every tag's list stay), so the record keeps its slot and
\* subscriptions; and once the flag is set to true, a log call on a tag the
\* record subscribed to, at a level that meets its threshold, invokes it.
C34_EnabledFlagFrame ==
    [][/\ (lastOp'.op = "register" /\ lastOp'.ret) => handlers'[handlerCount].enabled
       /\ \A i \in Slots, on \in BOOLEAN :
             (lastOp'.op = "setEnabled" /\ SetEnabled(i, on)) =>
                /\ UNCHANGED <<handlerCount, nextHandlerId, tags>>
                /\ handlers' = [handlers EXCEPT ![i].enabled = on]
                /\ on =>
                     \A t \in Tags, level \in LogLevels :
                        (<<handlers[i].context, t>> \in subscribed
                            /\ level >= handlers[i].level) =>
                           handlers[i].context
                              \in Invoked(WouldInvoke(tags', handlers', level, t))]_vars

\* ------------------------------------------------------------------------
\* The calls taken one loop turn at a time.  inflight is the call in progress:
\* kind names the loop it stands in, op the call, key the id or name looked for,
\* entry the record worked on, i, t, rd and wr the loop variables of the code
\* (counted from 0 as there), ctx the context of the record found.  One call
\* runs at a time, to its end.

\* ++i with the increment left out
NextIndexStuck(i) == i

\* ++i, ++t, ++rd, wr++ of the for loops
NextIndex(i) == i + 1

\* a call that has entered its first loop
LoopStart(kind, op, key) ==
    [kind |-> kind, op |-> op, key |-> key, entry |-> -1, i |-> 0, t |-> 0,
     rd |-> 0, wr |-> 0, tagList |-> << >>, tagCount |-> 0, ctx |-> NullCtx]

Idle == inflight.kind = "none" /\ ~walk.active

\* what a loop turn leaves alone besides the variables it names
LoopFrame ==
    /\ calls' = << >> /\ providerCalled' = FALSE
    /\ UNCHANGED <<loggerState, walk, otherManager>>

\* deleteHandlerByID(id) enters findEntryByID
BeginDeleteByID(id) ==
    /\ Idle
    /\ inflight' = LoopStart("findLoop", "deleteByID", id)
    /\ lastOp' = [op |-> "call", ret |-> TRUE]
    /\ LoopFrame
    /\ UNCHANGED <<registry, tags, history>>

\* deleteHandlerByName(name) enters findEntryByName
BeginDeleteByName(name) ==
    /\ Idle
    /\ inflight' = LoopStart("findLoop", "deleteByName", name)
    /\ lastOp' = [op |-> "call", ret |-> TRUE]
    /\ LoopFrame
    /\ UNCHANGED <<registry, tags, history>>

\* clearHandlers enters its first loop
BeginClear ==
    /\ Idle
    /\ inflight' = LoopStart("clearLoop", "clear", 0)
    /\ lastOp' = [op |-> "call", ret |-> TRUE]
    /\ LoopFrame
    /\ UNCHANGED <<registry, tags, history>>

\* registerHandlerForTags up to the loop of subscribeEntryToTags
BeginRegister(level, fn, ctx, tagList, tagCount, name) ==
    /\ Idle
    /\ LoopFrame
    /\ IF ~HasCapacity(handlerCount)
       THEN /\ lastOp' = [op |-> "register", ret |-> FALSE]
            /\ UNCHANGED <<registry, tags, history, inflight>>
       ELSE LET r == CreateEntry(handlers, handlerCount, nextHandlerId,
                                 level, fn, ctx, tagList, tagCount, name)
            IN  /\ handlers' = r.handlers
                /\ handlerCount' = r.handlerCount
                /\ nextHandlerId' = r.nextHandlerId
                /\ inflight' = [LoopStart("subscribeLoop", "register", 0) EXCEPT
                                   !.entry = handlerCount, !.tagList = tagList,
                                   !.tagCount = tagCount, !.ctx = ctx]
                /\ lastOp' = [op |-> "call", ret |-> TRUE]
                /\ regs' = regs + 1
                /\ lastId' = nextHandlerId
                /\ UNCHANGED <<tags, subscribed, removed>>

\* one turn of for (i = 0; i < tagCount; ++i) in subscribeEntryToTags
SubscribeTurn ==
    /\ inflight.kind = "subscribeLoop"
    /\ LoopFrame
    /\ IF inflight.i < inflight.tagCount
       THEN LET t == inflight.tagList[inflight.i + 1]
                room == Len(tags[t]) < MAX_TAG_SUBSCRIPTIONS
            IN  /\ tags' = IF room
                           THEN [tags EXCEPT ![t] = Append(@, [slot |-> inflight.entry,
                                                               owner |-> inflight.ctx])]
                           ELSE tags
                /\ subscribed' = IF room THEN subscribed \cup {<<inflight.ctx, t>>}
                                 ELSE subscribed
                /\ inflight' = [inflight EXCEPT !.i = NextIndex(@)]
                /\ UNCHANGED <<registry, lastOp, regs, removed, lastId>>
       ELSE /\ inflight' = NoInflight
            /\ lastOp' = [op |-> "register", ret |-> TRUE]
            /\ UNCHANGED <<registry, tags, history>>

\* one turn of for (i = 0; i < handlerCount; ++i) in findEntryByID / findEntryByName
FindTurn ==
    /\ inflight.kind = "findLoop"
    /\ LoopFrame
    /\ UNCHANGED <<registry, tags, history>>
    /\ IF inflight.i < handlerCount
       THEN LET e == handlers[inflight.i]
                hit == IF inflight.op = "deleteByID" THEN e.id = inflight.key
                       ELSE e.name # NULLPTR /\ e.name = inflight.key
            IN  /\ inflight' = IF hit
                               THEN [inflight EXCEPT !.kind = "unsubLoop",
                                                     !.entry = inflight.i,
                                                     !.ctx = e.context, !.t = 0]
                               ELSE [inflight EXCEPT !.i = NextIndex(@)]
                /\ UNCHANGED lastOp
       ELSE /\ inflight' = NoInflight
            /\ lastOp' = [op |-> inflight.op, ret |-> FALSE]

\* one turn of for (t = 0; t < entry->tagCount; ++t), up to the inner loop
UnsubTurn ==
    /\ inflight.kind = "unsubLoop"
    /\ LoopFrame
    /\ UNCHANGED <<registry, tags, history, lastOp>>
    /\ inflight' =
          IF inflight.t < handlers[inflight.entry].tagCount
          THEN [inflight EXCEPT !.kind = "pruneLoop", !.rd = 0, !.wr = 0]
          ELSE IF inflight.op = "clear"
          THEN [inflight EXCEPT !.kind = "clearLoop", !.i = NextIndex(@)]
          ELSE [inflight EXCEPT !.kind = "compactLoop", !.i = inflight.entry + 1]

\* one turn of for (rd = 0; rd < tag->handlerCount; ++rd), and
\* tag->handlerCount = wr after the last
PruneTurn ==
    /\ inflight.kind = "pruneLoop"
    /\ LoopFrame
    /\ UNCHANGED <<registry, history, lastOp>>
    /\ LET tag == handlers[inflight.entry].tagList[inflight.t + 1]
           list == tags[tag]
       IN  IF inflight.rd < Len(list)
           THEN IF list[inflight.rd + 1].slot # inflight.entry
                THEN /\ tags' = [tags EXCEPT ![tag][inflight.wr + 1] = list[inflight.rd + 1]]
                     /\ inflight' = [inflight EXCEPT !.rd = NextIndex(@),
                                                     !.wr = NextIndex(@)]
                ELSE /\ tags' = tags
                     /\ inflight' = [inflight EXCEPT !.rd = NextIndex(@)]
           ELSE /\ tags' = [tags EXCEPT ![tag] = SubSeq(list, 1, inflight.wr)]
                /\ inflight' = [inflight EXCEPT !.kind = "unsubLoop", !.t = NextIndex(@)]

\* one turn of for (i = index + 1; i < handlerCount; ++i) in compactHandlerArray,
\* and --handlerCount; return true after the last
CompactTurn ==
    /\ inflight.kind = "compactLoop"
    /\ LoopFrame
    /\ UNCHANGED <<nextHandlerId, tags, regs, subscribed, lastId>>
    /\ IF inflight.i < handlerCount
       THEN /\ handlers' = [handlers EXCEPT ![inflight.i - 1] = handlers[inflight.i]]
            /\ inflight' = [inflight EXCEPT !.i = NextIndex(@)]
            /\ UNCHANGED <<handlerCount, removed, lastOp>>
       ELSE /\ handlerCount' = handlerCount - 1
            /\ removed' = removed \cup {inflight.ctx}
            /\ inflight' = NoInflight
            /\ lastOp' = [op |-> inflight.op, ret |-> TRUE]
            /\ UNCHANGED handlers

\* one turn of the first loop of clearHandlers, for (i = 0; i < handlerCount; ++i),
\* up to its inner loops
ClearTurn ==
    /\ inflight.kind = "clearLoop"
    /\ LoopFrame
    /\ UNCHANGED <<registry, tags, history, lastOp>>
    /\ inflight' =
          IF inflight.i < handlerCount
          THEN [inflight EXCEPT !.kind = "unsubLoop", !.entry = inflight.i, !.t = 0]
          ELSE [inflight EXCEPT !.kind = "wipeLoop", !.i = 0]

\* one turn of for (i = 0; i < MAX_HANDLERS; ++i) handlers[i] = HandlerEntry{}, and
\* handlerCount = 0; nextHandlerId = 1 after the last
WipeTurn ==
    /\ inflight.kind = "wipeLoop"
    /\ LoopFrame
    /\ UNCHANGED <<tags, regs, subscribed, removed>>
    /\ IF inflight.i < MAX_HANDLERS
       THEN /\ handlers' = [handlers EXCEPT ![inflight.i] = DefaultEntry]
            /\ inflight' = [inflight EXCEPT !.i = NextIndex(@)]
            /\ UNCHANGED <<handlerCount, nextHandlerId, lastId, lastOp>>
       ELSE /\ handlerCount' = 0
            /\ nextHandlerId' = 1
            /\ lastId' = 0
            /\ inflight' = NoInflight
            /\ lastOp' = [op |-> "clear", ret |-> TRUE]
            /\ UNCHANGED handlers

\* at most MaxLoopRegs registrations
MaxLoopRegs == 3
LoopTagLists == {<<"T1">>, <<"T1", "T2">>, LongTagList}
LoopRegArgs == {<<INFO, "X">>}

\* the turns of the call in progress
Turn ==
    \/ SubscribeTurn
    \/ FindTurn
    \/ UnsubTurn
    \/ PruneTurn
    \/ CompactTurn
    \/ ClearTurn
    \/ WipeTurn
    \/ \E selfRemove \in BOOLEAN, ub \in UbOutcomes : WalkStep(selfRemove, ub)

NextLoops ==
    \/ \E a \in LoopRegArgs, tl \in LoopTagLists :
          /\ regs < MaxLoopRegs
          /\ BeginRegister(a[1], Callback, regs + 1, tl, Len(tl), a[2])
    \/ \E id \in 1 .. MaxLoopRegs : BeginDeleteByID(id)
    \/ \E name \in DelNames : BeginDeleteByName(name)
    \/ BeginClear
    \/ \E tag \in Tags, ts \in ExplicitTimestamps :
          /\ Idle
          /\ LogBegin(INFO, tag, ts, 0)
    \/ Turn

SpecLoops == Init /\ [][NextLoops]_vars

\* the call in progress keeps running: a turn that stays possible is taken
SpecLoopsFair == SpecLoops /\ WF_vars(Turn)

\* C35: every register, delete-by-id, delete-by-name, clear and log call, started
\* in any reachable state, runs through finitely many loop turns and returns
\* (the callbacks a log call invokes return).
C35_CallsTerminate == ~Idle ~> Idle

\* a clearHandlers call is in its innermost loop, past the first pointer of the
\* tag, working on a record that is not the first
C35_Witness ==
    /\ inflight.kind = "pruneLoop"
    /\ inflight.op = "clear"
    /\ inflight.entry >= 1
    /\ inflight.rd >= 1

====
